---- MODULE Spec2Model ----
(***************************************************************************)
(* Model of the signal evaluators and scan loops of the trading dashboard: *)
(*   pages/My_Portfolio.py   get_position_details,                         *)
(*                           get_position_details_with_retry               *)
(*   pages/AI_Screener.py    analyze_stock_for_signal, Run Scan loop       *)
(*   pages/Swing_Strategy.py calculate_adx, analyze_market_data,           *)
(*                           Run Probability Scanner                       *)
(*   pages/Analysis.py       get_stock_analysis, calculate_verdict         *)
(*   utils.py                fetch_prices, compute_portfolio               *)
(*   pages/AI_Screener.py,   add_to_portfolio, add_manual_holding,         *)
(*   pages/My_Portfolio.py   update_holding, update_status, remove_holding *)
(*                                                                         *)
(* A price history is represented by its number of bars and the indicator  *)
(* values of its latest bar(s).  A float is an integer in a scaled unit    *)
(* (stated where it is used) or NaN; calculate_adx is computed bar by bar  *)
(* on exact fractions.                                                     *)
(***************************************************************************)
EXTENDS Integers, Sequences, FiniteSets, TLC

VARIABLES
    call,        \* the last evaluator call: function, inputs, locals, result
    scan,        \* the scan a scanner page is running: loop position and lists
    retry,       \* get_position_details_with_retry: loop position, cache, calls
    fetch,       \* fetch_prices: the futures, the results dict, the outcome
    adx,         \* calculate_adx: the frame and every intermediate series
    pf           \* the portfolio store and the sessions that read and write it

vars == <<call, scan, retry, fetch, adx, pf>>

-----------------------------------------------------------------------------
(* Floats.  pandas marks an undefined value NaN; every ordered comparison   *)
(* with NaN is False.                                                       *)

NaN == [nan |-> TRUE, v |-> 0]

Num(x) == [nan |-> FALSE, v |-> x]

notna(a) == ~a.nan

GT(a, b) == notna(a) /\ notna(b) /\ a.v > b.v

LT(a, b) == notna(a) /\ notna(b) /\ a.v < b.v

GE(a, b) == notna(a) /\ notna(b) /\ a.v >= b.v

LE(a, b) == notna(a) /\ notna(b) /\ a.v <= b.v

\* Python's None
None == [none |-> TRUE]

-----------------------------------------------------------------------------
(* Bounds of the input space *)

MaxPrice == 3

MaxSwingPrice == 2

MaxScanLen == 3

\* the number of portfolio rows ever created
MaxRows == 3

\* history lengths around every rolling window of the code (14, 20, 50, 200)
BarCounts == {0, 1, 2, 13, 14, 20, 30, 49, 50, 199, 200, 201, 252}

Prices == {Num(p) : p \in 1..MaxPrice}

SwingPrices == {Num(p) : p \in 1..MaxSwingPrice}

\* RSI readings around the thresholds 30, 40, 70 and 75 of the code and spec
RSIVals == {Num(r) : r \in {0, 25, 30, 35, 40, 55, 70, 72, 75, 80, 100}}

\* the lists over S of at most n entries
SeqsUpTo(S, n) == UNION {[1..k -> S] : k \in 0..n}

\* series.rolling(window).mean() at the latest bar of an n-bar series: NaN
\* until the window is full; NaN also when a bar of the window is NaN
rolling(n, window, vals) == IF n >= window THEN vals \cup {NaN} ELSE {NaN}

NoCall == [fn |-> "none"]

NoScan == [page |-> "none", pc |-> "idle"]

NoRetry == [pc |-> "idle", cache |-> [has |-> FALSE]]

NoFetch == [pc |-> "idle"]

NoADX == [pc |-> "idle"]

\* the sessions (browser tabs) of the app; every script run of a session
\* reads and writes the one portfolio store
Sessions == {1, 2}

\* no portfolio.csv yet, both sessions between two script runs; nextid
\* numbers the positions as they are created (not a column of the store)
NoPortfolio ==
    [file |-> [exists |-> FALSE, rows |-> <<>>],
     nextid |-> 1,
     sess |-> [s \in Sessions |-> [pc |-> "idle", last |-> "none"]]]

\* the state before any page has run
Init ==
    /\ call = NoCall /\ scan = NoScan
    /\ retry = NoRetry /\ fetch = NoFetch /\ adx = NoADX
    /\ pf = NoPortfolio

-----------------------------------------------------------------------------
(* pages/My_Portfolio.py: get_position_details *)


\* current_rsi = latest['RSI'] if ... pd.notna(latest['RSI']) else 50
current_rsi(latest) == IF notna(latest.RSI) THEN latest.RSI ELSE Num(50)

position_signal_buy_first(latest) ==
    LET rsi == current_rsi(latest) IN
    IF notna(latest.SMA50) /\ notna(latest.SMA200)
    THEN IF LT(rsi, Num(30)) THEN "BUY: RSI Oversold (<30)"
         ELSE IF GT(latest.SMA50, latest.SMA200) THEN "BUY: Golden Cross (Bullish Trend)"
         ELSE IF GT(rsi, Num(70)) THEN "SELL: RSI Overbought (>70)"
         ELSE IF LT(latest.SMA50, latest.SMA200) THEN "SELL: Death Cross (50 < 200 SMA)"
         ELSE "HOLD"
    ELSE "HOLD"

\* the strategy logic: the if / elif chain under "if SMAs are valid"
position_signal(latest) ==
    LET rsi == current_rsi(latest) IN
    IF notna(latest.SMA50) /\ notna(latest.SMA200)
    THEN IF GT(rsi, Num(70)) THEN "SELL: RSI Overbought (>70)"
         ELSE IF LT(latest.SMA50, latest.SMA200) THEN "SELL: Death Cross (50 < 200 SMA)"
         ELSE IF LT(rsi, Num(30)) THEN "BUY: RSI Oversold (<30)"
         ELSE IF GT(latest.SMA50, latest.SMA200) THEN "BUY: Golden Cross (Bullish Trend)"
         ELSE "HOLD"
    ELSE "HOLD"

\* hist = [raises, n, latest]: the provider raised, or returned n bars whose
\* latest bar carries the indicator values `latest`
get_position_details(hist) ==
    IF hist.raises THEN None
    ELSE IF hist.n = 0 THEN None
    ELSE [price |-> hist.latest.Close,
          rsi |-> current_rsi(hist.latest),
          sma50 |-> hist.latest.SMA50,
          sma200 |-> hist.latest.SMA200,
          signal |-> position_signal(hist.latest)]

\* the histories stock.history(period="1y") can hand to get_position_details
PositionHists ==
    {[raises |-> TRUE, n |-> 0, latest |-> None]}
    \cup {[raises |-> FALSE, n |-> 0, latest |-> None]}
    \cup UNION {
        [raises : {FALSE}, n : {n},
         latest : [Close : Prices,
                   RSI : rolling(n, 14, RSIVals),
                   SMA50 : rolling(n, 50, Prices),
                   SMA200 : rolling(n, 200, Prices)]]
        : n \in BarCounts \ {0}}

\* the page's reading of a signal: "SELL" in signal / elif "BUY" in signal
ContainsSELL(signal) ==
    signal \in {"SELL: RSI Overbought (>70)",
                "SELL: Death Cross (50 < 200 SMA)"}

ContainsBUY(signal) ==
    signal \in {"BUY: RSI Oversold (<30)",
                "BUY: Golden Cross (Bullish Trend)"}

Verdict(signal) ==
    IF ContainsSELL(signal) THEN "SELL"
    ELSE IF ContainsBUY(signal) THEN "BUY"
    ELSE "HOLD"

CallGetPositionDetails ==
    /\ call = NoCall
    /\ \E hist \in PositionHists :
        call' = [fn |-> "get_position_details", hist |-> hist,
                 out |-> get_position_details(hist)]
    /\ UNCHANGED <<scan, retry, fetch, adx, pf>>

-----------------------------------------------------------------------------
(* pages/AI_Screener.py: analyze_stock_for_signal *)

\* the locals score and reasons
NoScore == [score |-> 0, reasons |-> <<>>]

\* score += 1; reasons.append(reason)
fire(st, reason) == [score |-> st.score + 1, reasons |-> Append(st.reasons, reason)]

ScreenerReasons ==
    <<"Bullish Trend (>SMA200)", "Healthy RSI", "Positive MACD",
      "Below Upper BB", "High Volume">>

\* the conditions of the five if statements, in order; BB_Upper * 0.98 is
\* compared in hundredths
screener_rule(k, latest) ==
    CASE k = 1 -> GT(latest.Close, latest.SMA200)
      [] k = 2 -> LT(Num(40), latest.RSI) /\ LT(latest.RSI, Num(70))
      [] k = 3 -> GT(latest.MACD, latest.Signal_Line)
      [] k = 4 -> /\ notna(latest.Close) /\ notna(latest.BB_Upper)
                  /\ latest.Close.v * 100 < latest.BB_Upper.v * 98
      [] k = 5 -> GT(latest.Volume, latest.AvgVolume20)

screener_step_double(st, k, latest) ==
    IF screener_rule(k, latest)
    THEN IF k = 2 THEN fire(fire(st, ScreenerReasons[k]), ScreenerReasons[k])
         ELSE fire(st, ScreenerReasons[k])
    ELSE st

\* one if statement of the scoring block
screener_step(st, k, latest) ==
    IF screener_rule(k, latest) THEN fire(st, ScreenerReasons[k]) ELSE st

\* the scoring block: the five if statements run one after the other
screener_score(latest) ==
    LET s1 == screener_step(NoScore, 1, latest)
        s2 == screener_step(s1, 2, latest)
        s3 == screener_step(s2, 3, latest)
        s4 == screener_step(s3, 4, latest)
    IN  screener_step(s4, 5, latest)

screener_floor_two(score) == score >= 2

\* if score >= 3: return {...}
screener_floor(score) == score >= 3

\* result: [scored, score, reasons, out]; scored is FALSE when the function
\* returned before the scoring block
analyze_stock_for_signal(ticker, hist) ==
    IF hist.raises \/ hist.n < 200
    THEN [scored |-> FALSE, score |-> 0, reasons |-> <<>>, out |-> None]
    ELSE LET st == screener_score(hist.latest) IN
         [scored |-> TRUE, score |-> st.score, reasons |-> st.reasons,
          out |-> IF screener_floor(st.score)
                  THEN [ticker |-> ticker, price |-> hist.latest.Close,
                        score |-> st.score, reasons |-> st.reasons]
                  ELSE None]

MACDVals == {Num(0), Num(1)}

\* the histories stock.history(period="1y") can hand to the screener; the
\* indicators of a history under 200 bars are never computed
ScreenerHists ==
    {[raises |-> TRUE, n |-> 0, latest |-> None]}
    \cup {[raises |-> FALSE, n |-> n, latest |-> None] :
            n \in {m \in BarCounts : m < 199}}
    \cup UNION {
        [raises : {FALSE}, n : {n},
         latest : [Close : Prices,
                   SMA200 : rolling(n, 200, Prices),
                   RSI : rolling(n, 14, RSIVals),
                   MACD : MACDVals,
                   Signal_Line : MACDVals,
                   BB_Upper : rolling(n, 20, Prices),
                   Volume : Prices,
                   AvgVolume20 : rolling(n, 20, Prices)]]
        : n \in {m \in BarCounts : m >= 199}}

CallAnalyzeStockForSignal ==
    /\ call = NoCall
    /\ \E hist \in ScreenerHists :
        call' = [fn |-> "analyze_stock_for_signal", hist |-> hist,
                 res |-> analyze_stock_for_signal("VOLV-B.ST", hist)]
    /\ UNCHANGED <<scan, retry, fetch, adx, pf>>

-----------------------------------------------------------------------------
(* pages/Analysis.py: get_stock_analysis and calculate_verdict.  The score  *)
(* of calculate_verdict is counted in half points (score += 0.5 adds 1).    *)


add(st, points, reason) ==
    [score |-> st.score + points, reasons |-> Append(st.reasons, reason)]

\* Trend: if latest['Close'] > latest['SMA200'] ... else ...
verdict_trend(st, latest) ==
    IF GT(latest.Close, latest.SMA200)
    THEN add(st, 2, "Price > 200 SMA (Long term Bullish)")
    ELSE add(st, -2, "Price < 200 SMA (Long term Bearish)")

\* Momentum (RSI): if / elif / elif
verdict_rsi(st, latest) ==
    IF LT(Num(30), latest.RSI) /\ LT(latest.RSI, Num(70))
    THEN [st EXCEPT !.score = @ + 1]
    ELSE IF LE(latest.RSI, Num(30)) THEN add(st, 4, "RSI Oversold (Potential bounce)")
    ELSE IF GE(latest.RSI, Num(70)) THEN add(st, -2, "RSI Overbought (Caution)")
    ELSE st

\* MACD: if ... else reasons.append("MACD Bearish")
verdict_macd(st, latest) ==
    IF GT(latest.MACD, latest.Signal_Line)
    THEN add(st, 2, "MACD Bullish Crossover")
    ELSE add(st, 0, "MACD Bearish")

\* Bollinger
verdict_bb(st, latest) ==
    IF LT(latest.Close, latest.BB_Lower) THEN add(st, 2, "Price below Lower BB (Oversold)") ELSE st

\* verdict from the score: >= 3, >= 1, <= -1 in points
verdict_of(score) ==
    IF score >= 6 THEN "STRONG BUY"
    ELSE IF score >= 2 THEN "BUY / ACCUMULATE"
    ELSE IF score <= -2 THEN "SELL / AVOID"
    ELSE "NEUTRAL"

\* result: the verdict and reasons returned, with the score after each of
\* the four rule blocks (trace[1] = 0 is the score before the first)
calculate_verdict(latest) ==
    LET s1 == verdict_trend(NoScore, latest)
        s2 == verdict_rsi(s1, latest)
        s3 == verdict_macd(s2, latest)
        s4 == verdict_bb(s3, latest)
    IN  [verdict |-> verdict_of(s4.score), reasons |-> s4.reasons,
         score |-> s4.score,
         trace |-> <<0, s1.score, s2.score, s3.score, s4.score>>]

\* get_stock_analysis returns None on an exception or an empty history, and
\* the history with its indicator columns otherwise
get_stock_analysis(hist) ==
    IF hist.raises THEN None
    ELSE IF hist.n = 0 THEN None
    ELSE [history |-> hist]

\* the page: data = get_stock_analysis(ticker); if data: latest =
\* hist.iloc[-1]; verdict, v_color, reasons = calculate_verdict(latest)
analysis_page(hist) ==
    LET data == get_stock_analysis(hist) IN
    IF data = None THEN None ELSE calculate_verdict(data.history.latest)

\* the histories stock.history(period="2y") can hand to get_stock_analysis
AnalysisHists ==
    {[raises |-> TRUE, n |-> 0, latest |-> None]}
    \cup {[raises |-> FALSE, n |-> 0, latest |-> None]}
    \cup UNION {
        [raises : {FALSE}, n : {n},
         latest : [Close : Prices,
                   SMA200 : rolling(n, 200, Prices),
                   RSI : rolling(n, 14, RSIVals),
                   MACD : MACDVals,
                   Signal_Line : MACDVals,
                   BB_Lower : rolling(n, 20, Prices)]]
        : n \in BarCounts \ {0}}

CallAnalysis ==
    /\ call = NoCall
    /\ \E hist \in AnalysisHists :
        call' = [fn |-> "calculate_verdict", hist |-> hist,
                 out |-> analysis_page(hist)]
    /\ UNCHANGED <<scan, retry, fetch, adx, pf>>

-----------------------------------------------------------------------------
(* pages/Swing_Strategy.py: calculate_adx.                                  *)
(* A float of this part is NaN, +inf or -inf, or an exact fraction n/d; the *)
(* rounding of float64 is not modelled.  A Series is a record [index,       *)
(* values]: its labels and its values, position by position.                *)

FNaN == [k |-> "nan"]

FInf(s) == [k |-> "inf", s |-> s]

IntAbs(x) == IF x < 0 THEN 0 - x ELSE x

RECURSIVE GCD(_, _)
GCD(a, b) == IF b = 0 THEN a ELSE GCD(b, a % b)

\* the fraction n/d (d > 0) in lowest terms
F(n, d) ==
    LET g == GCD(IntAbs(n), d) IN [k |-> "num", n |-> n \div g, d |-> d \div g]

isnum(a) == a.k = "num"

FNeg(a) ==
    CASE a.k = "nan" -> FNaN
      [] a.k = "inf" -> FInf(0 - a.s)
      [] OTHER -> F(0 - a.n, a.d)

\* a + b: inf + -inf is NaN
FAdd(a, b) ==
    CASE a.k = "nan" \/ b.k = "nan" -> FNaN
      [] a.k = "inf" /\ b.k = "inf" -> IF a.s = b.s THEN a ELSE FNaN
      [] a.k = "inf" -> a
      [] b.k = "inf" -> b
      [] OTHER -> F(a.n * b.d + b.n * a.d, a.d * b.d)

FAbs(a) ==
    CASE a.k = "nan" -> FNaN
      [] a.k = "inf" -> FInf(1)
      [] OTHER -> F(IntAbs(a.n), a.d)

\* a / b: 0/0 and inf/inf are NaN, x/0 is inf with the sign of x (the zeros
\* of this computation are +0.0)
FDiv(a, b) ==
    CASE a.k = "nan" \/ b.k = "nan" -> FNaN
      [] a.k = "inf" /\ b.k = "inf" -> FNaN
      [] a.k = "inf" -> IF b.n < 0 THEN FInf(0 - a.s) ELSE a
      [] b.k = "inf" -> F(0, 1)
      [] b.n = 0 -> IF a.n = 0 THEN FNaN
                    ELSE IF a.n > 0 THEN FInf(1) ELSE FInf(0 - 1)
      [] b.n < 0 -> F(0 - a.n * b.d, a.d * (0 - b.n))
      [] OTHER -> F(a.n * b.d, a.d * b.n)

\* a > b on prices and their differences; False when an operand is NaN
FGt(a, b) == isnum(a) /\ isnum(b) /\ a.n * b.d > b.n * a.d

\* the larger of a and b, skipping NaN (DataFrame.max(axis=1))
FMax(a, b) ==
    IF a.k = "nan" THEN b
    ELSE IF b.k = "nan" THEN a
    ELSE IF FGt(b, a) THEN b ELSE a

\* def calculate_adx(df, period=14)
period == 14

\* df.index of an n-bar frame
frame_index(df) == [j \in 1..Len(df.bars) |-> [kind |-> df.kind, at |-> j - 1]]

\* pd.Series(ndarray): a fresh RangeIndex 0..n-1
Series(values) ==
    [index |-> [j \in 1..Len(values) |-> [kind |-> "range", at |-> j - 1]],
     values |-> values]

\* df['High'], df['Low'], df['Close']
frame_column(df, name) ==
    [index |-> frame_index(df),
     values |-> [j \in 1..Len(df.bars) |-> F(df.bars[j][name], 1)]]

\* s.shift(1)
shift(s) ==
    [s EXCEPT !.values = [j \in 1..Len(s.values) |->
                             IF j = 1 THEN FNaN ELSE s.values[j - 1]]]

\* s.diff()
diff(s) ==
    [s EXCEPT !.values = [j \in 1..Len(s.values) |->
                             FAdd(s.values[j], FNeg(shift(s).values[j]))]]

\* the value of a series at a label, NaN where the label is missing
at(s, label) ==
    IF \E j \in 1..Len(s.index) : s.index[j] = label
    THEN s.values[CHOOSE j \in 1..Len(s.index) : s.index[j] = label]
    ELSE FNaN

\* the outer join of two indexes: equal indexes are kept; otherwise the
\* labels of the left followed by the labels only the right has
union(left, right) ==
    IF left = right THEN left
    ELSE left \o SelectSeq(right, LAMBDA l : \A j \in 1..Len(left) : left[j] # l)

\* the float operations applied to Series, by name
apply2(op, x, y) ==
    CASE op = "add" -> FAdd(x, y)
      [] op = "sub" -> FAdd(x, FNeg(y))
      [] op = "div" -> FDiv(x, y)

apply1(op, x) ==
    CASE op = "abs" -> FAbs(x)
      [] op = "times100" -> IF isnum(x) THEN F(100 * x.n, x.d) ELSE x

\* a binary operation on two Series: aligned on the union of the indexes
binop(op, a, b) ==
    IF a.index = b.index
    THEN [index |-> a.index,
          values |-> [j \in 1..Len(a.values) |-> apply2(op, a.values[j], b.values[j])]]
    ELSE LET idx == union(a.index, b.index) IN
         [index |-> idx,
          values |-> [j \in 1..Len(idx) |-> apply2(op, at(a, idx[j]), at(b, idx[j]))]]

\* a unary operation on a Series
unop(op, a) ==
    [a EXCEPT !.values = [j \in 1..Len(a.values) |-> apply1(op, a.values[j])]]

RECURSIVE window_sum(_, _, _)
\* the sum of the `count` values of `values` that end at position j
window_sum(values, j, count) ==
    IF count = 0 THEN F(0, 1)
    ELSE FAdd(window_sum(values, j - 1, count - 1), values[j])

\* s.rolling(window).mean(): NaN until the window is full and while the
\* window holds a NaN; pandas turns inf into NaN before it rolls
rolling_mean(s, window) ==
    [s EXCEPT !.values = [j \in 1..Len(s.values) |->
        IF j >= window /\ \A i \in (j - window + 1)..j : isnum(s.values[i])
        THEN FDiv(window_sum(s.values, j, window), F(window, 1))
        ELSE FNaN]]

\* pd.concat((tr1, tr2, tr3), axis=1).max(axis=1) on columns of one index
max3(a, b, c) ==
    [a EXCEPT !.values = [j \in 1..Len(a.values) |->
                             FMax(FMax(a.values[j], b.values[j]), c.values[j])]]

\* the body of the try block; `prd` is the period argument
adx_try(df, prd) ==
    LET n == Len(df.bars)
        high == frame_column(df, "High")
        low == frame_column(df, "Low")
        close == frame_column(df, "Close")
        high_diff == diff(high)
        low_diff == diff(low)
        \* np.where((plus_dm > minus_dm) & (plus_dm > 0), plus_dm, 0.0)
        plus_dm == [j \in 1..n |->
                       IF /\ FGt(high_diff.values[j], low_diff.values[j])
                          /\ FGt(high_diff.values[j], F(0, 1))
                       THEN high_diff.values[j] ELSE F(0, 1)]
        \* np.where((minus_dm > plus_dm) & (minus_dm > 0), -minus_dm, 0.0),
        \* where plus_dm is the array of the line before
        minus_dm == [j \in 1..n |->
                        IF /\ FGt(low_diff.values[j], plus_dm[j])
                           /\ FGt(low_diff.values[j], F(0, 1))
                        THEN FNeg(low_diff.values[j]) ELSE F(0, 1)]
        tr1 == binop("sub", high, low)
        tr2 == unop("abs", binop("sub", high, shift(close)))
        tr3 == unop("abs", binop("sub", low, shift(close)))
        tr == max3(tr1, tr2, tr3)
        atr == rolling_mean(tr, prd)
        plus_di == unop("times100", binop("div", rolling_mean(Series(plus_dm), prd), atr))
        minus_di == unop("times100", binop("div", rolling_mean(Series(minus_dm), prd), atr))
        dx == binop("div",
                    unop("times100", unop("abs", binop("sub", plus_di, minus_di))),
                    binop("add", plus_di, minus_di))
    IN  [raised |-> FALSE, plus_dm |-> plus_dm, minus_dm |-> minus_dm,
         plus_di |-> plus_di, minus_di |-> minus_di, dx |-> dx,
         adx |-> rolling_mean(dx, prd)]

\* calculate_adx(df, period): the locals of the try block and the returned
\* series `adx`; a frame without the High, Low, Close columns raises KeyError
\* and the except branch returns pd.Series(0, index=df.index)
calculate_adx(df, prd) ==
    IF df.ohlc
    THEN adx_try(df, prd)
    ELSE [raised |-> TRUE,
          adx |-> [index |-> frame_index(df),
                   values |-> [j \in 1..Len(df.bars) |-> F(0, 1)]]]

\* hist['ADX'] = series: the series reindexed to the index of the frame
setcolumn(df, s) ==
    [index |-> frame_index(df),
     values |-> [j \in 1..Len(df.bars) |-> at(s, frame_index(df)[j])]]

\* the bars of a frame: High >= Close >= Low > 0
ADXBars ==
    {b \in [High : 1..MaxSwingPrice, Low : 1..MaxSwingPrice, Close : 1..MaxSwingPrice] :
        b.Low <= b.Close /\ b.Close <= b.High}

\* frame lengths around the warm-up of ADX (period, 2 * period - 1) and the
\* 50 bars analyze_market_data asks for
ADXBarCounts == {1, 14, 27, 28, 50}

repeat(pattern, n) == [j \in 1..n |-> pattern[((j - 1) % Len(pattern)) + 1]]

\* the frames handed to calculate_adx: with the DatetimeIndex of a yfinance
\* download or with a RangeIndex
ADXFrames ==
    {[kind |-> kind, ohlc |-> ohlc, pattern |-> p, bars |-> repeat(p, n)] :
        kind \in {"date", "range"}, ohlc \in BOOLEAN,
        p \in SeqsUpTo(ADXBars, 2) \ {<<>>}, n \in ADXBarCounts}

-----------------------------------------------------------------------------
(* pages/My_Portfolio.py, pages/AI_Screener.py: the 14-period RSI of        *)
(* get_position_details and analyze_stock_for_signal (the same five lines), *)
(* on the exact fractions of the ADX part.                                  *)

\* the RSI lines with 0/0 read as "no losses": a flat window gets 100
rsi14_flat_is_100(hist, negzero) ==
    LET delta == diff(frame_column(hist, "Close"))
        gain == rolling_mean(
                    [delta EXCEPT !.values = [j \in 1..Len(delta.values) |->
                        IF FGt(delta.values[j], F(0, 1))
                        THEN delta.values[j] ELSE F(0, 1)]], 14)
        loss == rolling_mean(
                    [delta EXCEPT !.values = [j \in 1..Len(delta.values) |->
                        IF FGt(F(0, 1), delta.values[j])
                        THEN FNeg(delta.values[j]) ELSE F(0, 1)]], 14)
        rs == [gain EXCEPT !.values = [j \in 1..Len(gain.values) |->
                  IF isnum(loss.values[j]) /\ loss.values[j].n = 0
                  THEN FInf(1)
                  ELSE FDiv(gain.values[j], loss.values[j])]]
    IN  [gain |-> gain, loss |-> loss, rs |-> rs,
         RSI |-> [rs EXCEPT !.values = [j \in 1..Len(rs.values) |->
                     FAdd(F(100, 1),
                          FNeg(FDiv(F(100, 1), FAdd(F(1, 1), rs.values[j]))))]]]

\* delta = hist['Close'].diff()
\* gain = (delta.where(delta > 0, 0)).rolling(window=14).mean()
\* loss = (-delta.where(delta < 0, 0)).rolling(window=14).mean()
\* rs = gain / loss
\* hist['RSI'] = 100 - (100 / (1 + rs))
\* The first delta is NaN and both comparisons with NaN are False, so gain
\* and loss hold 0 there.  The negation makes the zeros of the loss column
\* -0.0; whether a zero rolling mean of them is +0.0 (the running sum) or
\* -0.0 (the repeated value) depends on the pandas release: negzero.
rsi14(hist, negzero) ==
    LET delta == diff(frame_column(hist, "Close"))
        gain == rolling_mean(
                    [delta EXCEPT !.values = [j \in 1..Len(delta.values) |->
                        IF FGt(delta.values[j], F(0, 1))
                        THEN delta.values[j] ELSE F(0, 1)]], 14)
        loss == rolling_mean(
                    [delta EXCEPT !.values = [j \in 1..Len(delta.values) |->
                        IF FGt(F(0, 1), delta.values[j])
                        THEN FNeg(delta.values[j]) ELSE F(0, 1)]], 14)
        rs == [gain EXCEPT !.values = [j \in 1..Len(gain.values) |->
                  IF negzero /\ isnum(loss.values[j]) /\ loss.values[j].n = 0
                  THEN FNeg(FDiv(gain.values[j], loss.values[j]))
                  ELSE FDiv(gain.values[j], loss.values[j])]]
    IN  [gain |-> gain, loss |-> loss, rs |-> rs,
         RSI |-> [rs EXCEPT !.values = [j \in 1..Len(rs.values) |->
                     FAdd(F(100, 1),
                          FNeg(FDiv(F(100, 1), FAdd(F(1, 1), rs.values[j]))))]]]

\* hist['Close'] of a yfinance history: `lead` bars that repeat a pattern of
\* closes, then bars that rise, fall or stay flat by `slope` a bar
RSIHists ==
    {[kind |-> "date",
      bars |-> [j \in 1..n |->
                 [Close |-> IF j <= lead THEN 40 + p[((j - 1) % Len(p)) + 1]
                            ELSE 40 + p[Len(p)] + slope * (j - lead)]]] :
        p \in SeqsUpTo({0, 1, 3}, 2) \ {<<>>}, lead \in {1, 2, 5},
        slope \in {0 - 1, 0, 1}, n \in {1, 13, 14, 15, 19, 20}}

CallRSI ==
    /\ call = NoCall
    /\ \E hist \in RSIHists, negzero \in BOOLEAN :
        call' = [fn |-> "rsi", hist |-> hist, out |-> rsi14(hist, negzero)]
    /\ UNCHANGED <<scan, retry, fetch, adx, pf>>

\* hist['ADX'] at the latest bar of a history of a yfinance download, which
\* has a DatetimeIndex and the OHLC columns
SwingADX ==
    {setcolumn(df, calculate_adx(df, period).adx).values[Len(df.bars)] :
        df \in {f \in ADXFrames : f.kind = "date" /\ f.ohlc /\ Len(f.bars) >= 50}}

-----------------------------------------------------------------------------
(* pages/Swing_Strategy.py: analyze_market_data.  RVOL and weekly_potential *)
(* are counted in tenths (1.5 is 15, 4.0 is 40); target and stop in         *)
(* hundredths of the price unit.                                            *)

SwingBarCounts == {0, 49, 50, 126}

\* rows left by hist.dropna(subset=['Close', 'Open', 'Volume'])
SwingRows(n) == {r \in SwingBarCounts \cup {1} : r <= n}

SwingRSIVals == {Num(25), Num(30), Num(55)}

RVOLVals == {Num(15), Num(20)}

PotentialVals == {Num(30), Num(35), Num(40), Num(45)}

\* float inf: above every finite value
Infinity == Num(1000000)

\* the latest close of a history: a price, or the 0 of a bad bar
SwingCloses == SwingPrices \cup {Num(0)}

\* weekly_potential: 2.2 * 100 * the 14-bar mean of (High - Low) / Close,
\* which is inf or NaN once the latest Close is 0
swing_potentials(rows, close) ==
    IF close.v = 0 THEN {NaN, Infinity} ELSE rolling(rows, 14, PotentialVals)

\* Factor 2: crossing EMA20, elif oversold bounce
swing_momentum(st, hist) ==
    IF LT(hist.prev.Close, hist.prev.EMA20) /\ GT(hist.latest.Close, hist.latest.EMA20)
    THEN fire(st, "Momentum Crossover")
    ELSE IF LT(hist.latest.RSI, Num(30))
    THEN fire(st, "Oversold Bounce")
    ELSE st

\* entry_signal: set in both branches of Factor 2
swing_entry_signal(hist) ==
    \/ LT(hist.prev.Close, hist.prev.EMA20) /\ GT(hist.latest.Close, hist.latest.EMA20)
    \/ LT(hist.latest.RSI, Num(30))

\* the conditions of Factors 1, 3, 4 and 5
swing_rule(k, hist) ==
    CASE k = 1 -> GT(hist.latest.Close, hist.latest.EMA50)
      [] k = 2 -> swing_entry_signal(hist)
      [] k = 3 -> GT(hist.latest.RVOL, Num(15))
      [] k = 4 -> FGt(hist.latest.ADX, F(25, 1))
      [] k = 5 -> GT(hist.weekly_potential, Num(40))

\* the scoring system: Factors 1 to 5 in order; Factor 5 adds to the score
\* and appends nothing
swing_score(hist) ==
    LET s1 == IF swing_rule(1, hist) THEN fire(NoScore, "Bullish Trend (>EMA50)")
              ELSE NoScore
        s2 == swing_momentum(s1, hist)
        s3 == IF swing_rule(3, hist) THEN fire(s2, "High Volume") ELSE s2
        s4 == IF swing_rule(4, hist) THEN fire(s3, "Strong Trend") ELSE s3
    IN  IF swing_rule(5, hist) THEN [s4 EXCEPT !.score = @ + 1] ELSE s4

\* if entry_signal and weekly_potential > 3.0: return {...}
swing_returns(hist) ==
    swing_entry_signal(hist) /\ GT(hist.weekly_potential, Num(30))

\* "target": latest['Close'] * 1.05, in hundredths of the price unit
swing_target(close) == close.v * 105

swing_stop_above(close) == close.v * 103

\* "stop": latest['Close'] * 0.97, in hundredths of the price unit
swing_stop(close) == close.v * 97

\* result: [scored, score, reasons, out]; len(hist) < 50 returns None, and
\* hist.iloc[-1] / hist.iloc[-2] raise on fewer than two rows left
analyze_market_data(ticker, hist) ==
    IF hist.raises \/ hist.n < 50 \/ hist.rows < 2
    THEN [scored |-> FALSE, score |-> 0, reasons |-> <<>>, out |-> None]
    ELSE LET st == swing_score(hist) IN
         [scored |-> TRUE, score |-> st.score, reasons |-> st.reasons,
          out |-> IF swing_returns(hist)
                  THEN [ticker |-> ticker, price |-> hist.latest.Close,
                        score |-> st.score, reasons |-> st.reasons,
                        weekly_potential |-> hist.weekly_potential,
                        target |-> swing_target(hist.latest.Close),
                        stop |-> swing_stop(hist.latest.Close),
                        rvol |-> hist.latest.RVOL]
                  ELSE None]

NoBar == [Close |-> NaN]

\* the histories a batch column can hand to analyze_market_data: n bars, of
\* which `rows` are left by dropna and carry the indicators
SwingHists ==
    {[raises |-> TRUE, n |-> 0, rows |-> 0, latest |-> NoBar, prev |-> NoBar,
      weekly_potential |-> NaN]}
    \cup {[raises |-> FALSE, n |-> n, rows |-> r, latest |-> NoBar, prev |-> NoBar,
           weekly_potential |-> NaN] :
            n \in SwingBarCounts, r \in {0, 1}}
    \cup UNION { UNION {
        [raises : {FALSE}, n : {n}, rows : {r},
         latest : [Close : {c}, EMA50 : SwingPrices, EMA20 : SwingPrices,
                   RSI : rolling(r, 14, SwingRSIVals),
                   RVOL : rolling(r, 20, RVOLVals),
                   ADX : SwingADX],
         prev : [Close : SwingPrices, EMA20 : SwingPrices],
         weekly_potential : swing_potentials(r, c)]
        : r \in SwingRows(n) \ {0, 1}, c \in SwingCloses} : n \in SwingBarCounts}

CallAnalyzeMarketData ==
    /\ call = NoCall
    /\ \E hist \in SwingHists :
        call' = [fn |-> "analyze_market_data", hist |-> hist,
                 res |-> analyze_market_data("VOLV-B.ST", hist)]
    /\ UNCHANGED <<scan, retry, fetch, adx, pf>>

\* the page has rendered the result
Finish ==
    /\ call # NoCall
    /\ call' = NoCall
    /\ UNCHANGED <<scan, retry, fetch, adx, pf>>

-----------------------------------------------------------------------------
(* The scan loops.  A scan reads a snapshot of provider data: one history   *)
(* per ticker.                                                              *)

Tickers == {"VOLV-B.ST", "ERIC-B.ST", "AZN.ST"}

\* list(tickers_map.keys()): the keys of a dict are distinct
DistinctSeqs(S) ==
    {l \in SeqsUpTo(S, Cardinality(S)) : \A a, b \in 1..Len(l) : l[a] = l[b] => a = b}

\* sorted(list, key=..., reverse=True) and list.sort(key=..., reverse=True):
\* stable, so entries of equal key keep their order.  Keys are tuples.
RECURSIVE tuple_less(_, _)
tuple_less(a, b) ==
    IF a = <<>> THEN b # <<>>
    ELSE IF b = <<>> THEN FALSE
    ELSE IF Head(a) # Head(b) THEN Head(a) < Head(b)
    ELSE tuple_less(Tail(a), Tail(b))

swing_sort_key_score_only(x) == <<x.score>>

\* key=lambda x: x['score']
screener_sort_key(x) == <<x.score>>

\* key=lambda x: (x['score'], x['weekly_potential'])
swing_sort_key(x) == <<x.score, x.weekly_potential.v>>

sort_key(page, x) ==
    IF page = "AI_Screener" THEN screener_sort_key(x) ELSE swing_sort_key(x)

\* x put into the descending list s behind every entry whose key is not less
RECURSIVE insert_desc(_, _, _)
insert_desc(page, x, s) ==
    IF s = <<>> THEN <<x>>
    ELSE IF tuple_less(sort_key(page, Head(s)), sort_key(page, x))
         THEN <<x>> \o s
         ELSE <<Head(s)>> \o insert_desc(page, x, Tail(s))

RECURSIVE sort_from(_, _, _)
sort_from(page, done, rest) ==
    IF rest = <<>> THEN done
    ELSE sort_from(page, insert_desc(page, Head(rest), done), Tail(rest))

sorted_reverse(page, l) == sort_from(page, <<>>, l)

(* pages/AI_Screener.py: Run Scan *)

ScreenerBar(rsi, macd, vol) ==
    [Close |-> Num(2), SMA200 |-> Num(1), RSI |-> Num(rsi), MACD |-> Num(macd),
     Signal_Line |-> Num(0), BB_Upper |-> Num(3), Volume |-> Num(vol),
     AvgVolume20 |-> Num(1)]

\* the histories of a snapshot: a provider error, a 30-bar history, and
\* histories of score 2, 3, 4 and 5
ScanScreenerHists ==
    {[raises |-> TRUE, n |-> 0, latest |-> None],
     [raises |-> FALSE, n |-> 30, latest |-> None],
     [raises |-> FALSE, n |-> 252, latest |-> ScreenerBar(80, 0, 1)],
     [raises |-> FALSE, n |-> 252, latest |-> ScreenerBar(55, 0, 1)],
     [raises |-> FALSE, n |-> 252, latest |-> ScreenerBar(55, 1, 1)],
     [raises |-> FALSE, n |-> 252, latest |-> ScreenerBar(55, 1, 2)]}

\* one pass of: for i, ticker in enumerate(tickers_to_scan)
screener_loop(st, tickers_to_scan, provider) ==
    LET ticker == tickers_to_scan[st.i]
        result == analyze_stock_for_signal(ticker, provider[ticker]).out
    IN  [i |-> st.i + 1,
         signals |-> IF result # None THEN Append(st.signals, result)
                     ELSE st.signals]

\* the Run Scan button
RunScan ==
    /\ scan = NoScan
    /\ \E tickers_to_scan \in SeqsUpTo(Tickers, MaxScanLen),
          provider \in [Tickers -> ScanScreenerHists] :
        scan' = IF tickers_to_scan = <<>>
                THEN [page |-> "AI_Screener", pc |-> "no_tickers"]
                ELSE [page |-> "AI_Screener", pc |-> "loop",
                      tickers |-> tickers_to_scan, data |-> provider,
                      i |-> 1, signals |-> <<>>]
    /\ UNCHANGED <<call, retry, fetch, adx, pf>>

ScreenerLoop ==
    /\ scan.page = "AI_Screener" /\ scan.pc = "loop"
    /\ scan.i <= Len(scan.tickers)
    /\ LET st == screener_loop([i |-> scan.i, signals |-> scan.signals],
                               scan.tickers, scan.data)
       IN  scan' = [scan EXCEPT !.i = st.i, !.signals = st.signals]
    /\ UNCHANGED <<call, retry, fetch, adx, pf>>

\* sorted_signals = sorted(...); st.session_state['screener_results'] = ...
ScreenerSort ==
    /\ scan.page = "AI_Screener" /\ scan.pc = "loop"
    /\ scan.i > Len(scan.tickers)
    /\ scan' = [page |-> "AI_Screener", pc |-> "shown",
                tickers |-> scan.tickers, data |-> scan.data,
                signals |-> scan.signals,
                shown |-> sorted_reverse("AI_Screener", scan.signals)]
    /\ UNCHANGED <<call, retry, fetch, adx, pf>>

(* pages/Swing_Strategy.py: Run Probability Scanner *)

SwingBar(ema50, rvol, wp) ==
    [raises |-> FALSE, n |-> 126, rows |-> 126,
     latest |-> [Close |-> Num(2), EMA50 |-> Num(ema50), EMA20 |-> Num(1),
                 RSI |-> Num(55), RVOL |-> Num(rvol), ADX |-> FNaN],
     prev |-> [Close |-> Num(1), EMA20 |-> Num(2)],
     weekly_potential |-> Num(wp)]

\* batch_data[ticker] raises KeyError
Missing == [missing |-> TRUE]

\* any other exception of the loop body
Broken == [broken |-> TRUE]

\* what a ticker's column of batch_data can be: absent, unreadable, short,
\* an entry signal without volatility, and results of score 1, 2, 2 and 4
ScanSwingColumns ==
    {Missing, Broken,
     [raises |-> FALSE, n |-> 49, rows |-> 49, latest |-> NoBar, prev |-> NoBar,
      weekly_potential |-> NaN],
     SwingBar(2, 10, 25), SwingBar(2, 10, 35), SwingBar(1, 10, 35),
     SwingBar(2, 10, 45), SwingBar(1, 20, 45)}

swing_loop_break(st, ticker_list, batch_data) ==
    LET ticker == ticker_list[st.i]
        column == IF batch_data.multi THEN batch_data.columns[ticker]
                  ELSE batch_data.frame
    IN  IF column = Missing \/ column = Broken
        THEN [i |-> Len(ticker_list) + 1, results |-> st.results]
        ELSE LET res == analyze_market_data(ticker, column).out IN
             [i |-> st.i + 1,
              results |-> IF res # None THEN Append(st.results, res)
                          ELSE st.results]

\* one pass of: for i, ticker in enumerate(ticker_list); both except
\* clauses continue with the next ticker (the display name put into res is
\* left out)
swing_loop(st, ticker_list, batch_data) ==
    LET ticker == ticker_list[st.i]
        column == IF batch_data.multi THEN batch_data.columns[ticker]
                  ELSE batch_data.frame
    IN  IF column = Missing \/ column = Broken
        THEN [i |-> st.i + 1, results |-> st.results]
        ELSE LET res == analyze_market_data(ticker, column).out IN
             [i |-> st.i + 1,
              results |-> IF res # None THEN Append(st.results, res)
                          ELSE st.results]

\* yf.download(ticker_list, group_by='ticker'): a frame with one column
\* group per ticker (MultiIndex), or one plain frame
BatchData ==
    [multi : {TRUE}, columns : [Tickers -> ScanSwingColumns], frame : {Missing}]
    \cup [multi : {FALSE}, columns : {[t \in Tickers |-> Missing]},
          frame : ScanSwingColumns \ {Missing}]

\* the Run Probability Scanner button, after the batch download
RunProbabilityScanner ==
    /\ scan = NoScan
    /\ \E ticker_list \in DistinctSeqs(Tickers), batch_data \in BatchData :
        scan' = [page |-> "Swing_Strategy", pc |-> "loop",
                 tickers |-> ticker_list, data |-> batch_data,
                 i |-> 1, results |-> <<>>]
    /\ UNCHANGED <<call, retry, fetch, adx, pf>>

SwingLoop ==
    /\ scan.page = "Swing_Strategy" /\ scan.pc = "loop"
    /\ scan.i <= Len(scan.tickers)
    /\ LET st == swing_loop([i |-> scan.i, results |-> scan.results],
                            scan.tickers, scan.data)
       IN  scan' = [scan EXCEPT !.i = st.i, !.results = st.results]
    /\ UNCHANGED <<call, retry, fetch, adx, pf>>

\* if not results: st.warning(...) else: results.sort(...) and the cards
SwingSort ==
    /\ scan.page = "Swing_Strategy" /\ scan.pc = "loop"
    /\ scan.i > Len(scan.tickers)
    /\ scan' = [page |-> "Swing_Strategy", pc |-> "shown",
                tickers |-> scan.tickers, data |-> scan.data,
                results |-> scan.results,
                shown |-> IF scan.results = <<>> THEN <<>>
                          ELSE sorted_reverse("Swing_Strategy", scan.results)]
    /\ UNCHANGED <<call, retry, fetch, adx, pf>>

\* the page is left or run again
ScanReset ==
    /\ scan.pc \in {"shown", "no_tickers"}
    /\ scan' = NoScan
    /\ UNCHANGED <<call, retry, fetch, adx, pf>>

NextScan ==
    \/ RunScan
    \/ ScreenerLoop
    \/ ScreenerSort
    \/ RunProbabilityScanner
    \/ SwingLoop
    \/ SwingSort
    \/ ScanReset

SpecScan == Init /\ [][NextScan]_vars

-----------------------------------------------------------------------------

-----------------------------------------------------------------------------
(* Properties of get_position_details (SpecEval) *)

IsPositionCall == call.fn = "get_position_details" /\ call.out # None

\* an overriding SELL condition at the latest bar: RSI > 75, or a death cross
OverridingSell(latest) ==
    GT(latest.RSI, Num(75)) \/ LT(latest.SMA50, latest.SMA200)

\* C1: whenever an overriding SELL condition holds at the latest bar (RSI > 75
\* or SMA50 < SMA200), get_position_details returns a SELL signal, whatever
\* the other indicator values are, an undefined SMA50 or SMA200 included.
C1_OverrideYieldsSell ==
    IsPositionCall =>
        (OverridingSell(call.hist.latest) => Verdict(call.out.signal) = "SELL")

-----------------------------------------------------------------------------
(* Properties of analyze_stock_for_signal (SpecEval) *)

IsScreenerCall == call.fn = "analyze_stock_for_signal"

ScreenerFired(latest) == {k \in 1..5 : screener_rule(k, latest)}

\* C3: in analyze_stock_for_signal the score equals the number of rules that
\* fired, the reason list holds exactly the reasons of the fired rules in
\* rule order, no rule contributes twice, and the score lies in 0..5.
C3_ScoreCountsFiredRules ==
    (IsScreenerCall /\ call.res.scored) =>
        LET fired == ScreenerFired(call.hist.latest)
            res == call.res
        IN  /\ res.score = Cardinality(fired)
            /\ Len(res.reasons) = res.score
            /\ res.reasons =
                 SelectSeq(ScreenerReasons,
                           LAMBDA r : \E k \in fired : ScreenerReasons[k] = r)
            /\ \A a, b \in 1..Len(res.reasons) :
                 res.reasons[a] = res.reasons[b] => a = b
            /\ res.score \in 0..5
            /\ res.out # None =>
                 res.out.score = res.score /\ res.out.reasons = res.reasons

\* a result of score 3 in which the RSI and volume rules did not fire
C3_Witness ==
    /\ IsScreenerCall /\ call.res.out # None
    /\ ScreenerFired(call.hist.latest) = {1, 3, 4}
    /\ call.res.out.score = 3

\* C6: analyze_stock_for_signal returns no result for a history of fewer than
\* max(window) + 1 = 201 bars, whatever the indicator values.
C6_RejectsBelow201Bars ==
    (IsScreenerCall /\ ~call.hist.raises /\ call.hist.n < 201) =>
        call.res.out = None

-----------------------------------------------------------------------------
(* Properties of analyze_market_data (SpecEval) *)

IsSwingCall == call.fn = "analyze_market_data"

SwingFired(hist) == {k \in 1..5 : swing_rule(k, hist)}

\* C4: in analyze_market_data the returned score equals the number of rules
\* that fired and the returned reason list has as many entries as the score.
C4_ReasonPerPoint ==
    (IsSwingCall /\ call.res.out # None) =>
        /\ call.res.out.score = Cardinality(SwingFired(call.hist))
        /\ Len(call.res.out.reasons) = call.res.out.score

-----------------------------------------------------------------------------
(* Properties of get_stock_analysis and calculate_verdict (SpecEval) *)

IsVerdictCall == call.fn = "calculate_verdict" /\ call.out # None

InSeq(x, seq) == \E j \in 1..Len(seq) : seq[j] = x

\* C5: when an indicator is undefined at the latest bar (SMA200 of a history
\* under 200 bars that get_stock_analysis accepted), calculate_verdict skips
\* its rule: the score is not changed for it and no reason is given for it.
C5_UndefinedRuleSkipped ==
    IsVerdictCall =>
        LET latest == call.hist.latest
            out == call.out
        IN  /\ ~notna(latest.SMA200) =>
                 /\ out.trace[2] = out.trace[1]
                 /\ ~InSeq("Price > 200 SMA (Long term Bullish)", out.reasons)
                 /\ ~InSeq("Price < 200 SMA (Long term Bearish)", out.reasons)
            /\ ~notna(latest.RSI) =>
                 /\ out.trace[3] = out.trace[2]
                 /\ ~InSeq("RSI Oversold (Potential bounce)", out.reasons)
                 /\ ~InSeq("RSI Overbought (Caution)", out.reasons)
            /\ ~notna(latest.BB_Lower) =>
                 /\ out.trace[5] = out.trace[4]
                 /\ ~InSeq("Price below Lower BB (Oversold)", out.reasons)

\* C7: a lookup on a history too short for the 200-bar indicators (such as 30
\* bars) gives an insufficient-history outcome, never one of the ordinary
\* verdicts, from get_position_details as from get_stock_analysis followed
\* by calculate_verdict.
C7_ShortHistoryHasNoVerdict ==
    /\ (call.fn = "get_position_details" /\ ~call.hist.raises
        /\ call.hist.n = 30) =>
           (call.out = None \/ Verdict(call.out.signal) \notin {"BUY", "HOLD", "SELL"})
    /\ (call.fn = "calculate_verdict" /\ ~call.hist.raises
        /\ call.hist.n = 30) =>
           (call.out = None
            \/ call.out.verdict \notin
                 {"STRONG BUY", "BUY / ACCUMULATE", "SELL / AVOID", "NEUTRAL"})

-----------------------------------------------------------------------------
(* Properties of the scan loops (SpecScan) *)

IsScreenerScan == scan.page = "AI_Screener" /\ scan.pc \in {"loop", "shown"}

IsSwingScan == scan.page = "Swing_Strategy" /\ scan.pc \in {"loop", "shown"}

\* the tickers the loop has passed
Passed == IF scan.pc = "loop" THEN SubSeq(scan.tickers, 1, scan.i - 1)
          ELSE scan.tickers

ScreenerEval(t) == analyze_stock_for_signal(t, scan.data[t]).out

SwingColumn(t) == IF scan.data.multi THEN scan.data.columns[t] ELSE scan.data.frame

SwingEval(t) ==
    IF SwingColumn(t) \in {Missing, Broken} THEN None
    ELSE analyze_market_data(t, SwingColumn(t)).out

\* C8: in both scan loops every ticker is evaluated; a ticker whose
\* evaluation fails adds no entry and does not stop the tickers after it, so
\* the collected list holds exactly the results of the tickers whose
\* evaluation returned one, in list order.
C8_ScanIsolatesFailures ==
    /\ IsScreenerScan =>
         LET ok == SelectSeq(Passed, LAMBDA t : ScreenerEval(t) # None) IN
         /\ scan.pc = "loop" => scan.i \in 1..(Len(scan.tickers) + 1)
         /\ Len(scan.signals) = Len(ok)
         /\ \A j \in 1..Len(ok) : scan.signals[j] = ScreenerEval(ok[j])
    /\ IsSwingScan =>
         LET ok == SelectSeq(Passed, LAMBDA t : SwingEval(t) # None) IN
         /\ scan.pc = "loop" => scan.i \in 1..(Len(scan.tickers) + 1)
         /\ Len(scan.results) = Len(ok)
         /\ \A j \in 1..Len(ok) : scan.results[j] = SwingEval(ok[j])

\* three tickers, the first without a batch column: the two after it are in
\* the finished list
C8_Witness ==
    /\ scan.page = "Swing_Strategy" /\ scan.pc = "shown"
    /\ Len(scan.tickers) = 3
    /\ scan.data.multi
    /\ scan.data.columns[scan.tickers[1]] = Missing
    /\ Len(scan.results) = 2

\* C10: the list a scan displays is in score order, highest first; in the
\* swing scanner entries of equal score are in weekly_potential order,
\* highest first.
C10_DisplayedInScoreOrder ==
    (scan.pc = "shown") =>
        /\ Len(scan.shown) =
             Len(IF scan.page = "AI_Screener" THEN scan.signals ELSE scan.results)
        /\ \A j, k \in 1..Len(scan.shown) :
             j < k =>
               /\ scan.shown[j].score >= scan.shown[k].score
               /\ (scan.page = "Swing_Strategy"
                   /\ scan.shown[j].score = scan.shown[k].score) =>
                      GE(scan.shown[j].weekly_potential,
                         scan.shown[k].weekly_potential)

\* two swing results of equal score collected in rising weekly_potential
\* order, displayed the other way round
C10_Witness ==
    /\ scan.page = "Swing_Strategy" /\ scan.pc = "shown"
    /\ Len(scan.results) = 2
    /\ scan.results[1].score = scan.results[2].score
    /\ LT(scan.results[1].weekly_potential, scan.results[2].weekly_potential)
    /\ scan.shown = <<scan.results[2], scan.results[1]>>

-----------------------------------------------------------------------------
(* The AI screener's scan as a function of its ticker list (SpecScan) *)

RECURSIVE screener_collect(_, _, _)
screener_collect(st, tickers_to_scan, provider) ==
    IF st.i > Len(tickers_to_scan) THEN st.signals
    ELSE screener_collect(screener_loop(st, tickers_to_scan, provider),
                          tickers_to_scan, provider)

\* the list Run Scan stores in session_state for a ticker list and a snapshot
screener_results(tickers_to_scan, provider) ==
    sorted_reverse("AI_Screener",
                   screener_collect([i |-> 1, signals |-> <<>>],
                                    tickers_to_scan, provider))

Count(t, l) == Cardinality({j \in 1..Len(l) : l[j] = t})

\* the orderings of a ticker list
Orderings(l) ==
    {p \in [1..Len(l) -> Tickers] : \A t \in Tickers : Count(t, p) = Count(t, l)}

\* C11: for a fixed snapshot of evaluation results the AI screener's ranked
\* output is the same list for every ordering of the input ticker list: equal
\* scores are ordered by a secondary key, not by evaluation order.
C11_RankingIgnoresInputOrder ==
    (scan.page = "AI_Screener" /\ scan.pc = "shown") =>
        \A p \in Orderings(scan.tickers) :
            screener_results(p, scan.data) = scan.shown

-----------------------------------------------------------------------------
(* Properties of the swing scanner's risk envelope (SpecEval) *)

\* C12: every result of analyze_market_data with a positive latest close has
\* stop < price < target, with target = price * 1.05 and stop = price * 0.97
\* (prices in hundredths).
C12_StopBelowPriceBelowTarget ==
    (IsSwingCall /\ call.res.out # None /\ GT(call.hist.latest.Close, Num(0))) =>
        LET out == call.res.out IN
        /\ out.price = call.hist.latest.Close
        /\ out.target = out.price.v * 105
        /\ out.stop = out.price.v * 97
        /\ out.stop < out.price.v * 100
        /\ out.price.v * 100 < out.target

\* a result for a positive close
C12_Witness ==
    /\ IsSwingCall /\ call.res.out # None
    /\ call.hist.latest.Close = Num(2)
    /\ call.res.out.stop = 194 /\ call.res.out.target = 210

-----------------------------------------------------------------------------
(* pages/My_Portfolio.py: get_position_details_with_retry.                  *)
(* get_position_details is decorated with st.cache_data(ttl=300): a call    *)
(* for a ticker whose entry is in the cache returns the cached value, None  *)
(* included, without fetching.                                              *)

\* def get_position_details_with_retry(ticker, retries=3)
retries == 3

\* what one fetch of get_position_details can return
PositionResults == {get_position_details(hist) : hist \in PositionHists}

\* "if res:": None is falsy, the result dict always has keys and is truthy
truthy(res) == res # None

retry_body_no_return(st, res) ==
    [st EXCEPT !.pc = "sleep", !.calls = Append(@, res)]

\* the loop body after the call: "if res: return res", else go to sleep
retry_body(st, res) ==
    IF truthy(res)
    THEN [st EXCEPT !.pc = "done", !.calls = Append(@, res), !.out = res]
    ELSE [st EXCEPT !.pc = "sleep", !.calls = Append(@, res)]

\* the page calls get_position_details_with_retry(row['Ticker'])
RetryStart ==
    /\ retry.pc = "idle"
    /\ retry' = [pc |-> "loop", i |-> 0, calls |-> <<>>, out |-> None,
                 queried |-> <<>>, ok |-> <<>>, cache |-> retry.cache]
    /\ UNCHANGED <<call, scan, fetch, adx, pf>>

\* res = get_position_details(ticker): from the cache, or fetched and cached.
\* Two records of the attempt are kept beside `calls`: queried, whether the
\* body of get_position_details ran and asked the provider; and ok, whether
\* the provider answers with a usable history at that moment (a provider
\* error or an empty history makes the body return None).
RetryCall ==
    /\ retry.pc = "loop"
    /\ IF retry.cache.has
       THEN \E up \in BOOLEAN :
               retry' = retry_body(
                   [retry EXCEPT !.queried = Append(@, FALSE),
                                 !.ok = Append(@, up)],
                   retry.cache.val)
       ELSE \E res \in PositionResults :
               retry' = retry_body(
                   [retry EXCEPT !.cache = [has |-> TRUE, val |-> res, old |-> FALSE],
                                 !.queried = Append(@, TRUE),
                                 !.ok = Append(@, res # None)],
                   res)
    /\ UNCHANGED <<call, scan, fetch, adx, pf>>

\* time.sleep(1), then the next i of range(retries) or "return None"
RetrySleep ==
    /\ retry.pc = "sleep"
    /\ retry' = IF retry.i + 1 < retries
                THEN [retry EXCEPT !.pc = "loop", !.i = @ + 1]
                ELSE [retry EXCEPT !.pc = "done", !.i = @ + 1, !.out = None]
    /\ UNCHANGED <<call, scan, fetch, adx, pf>>

\* the page goes on; the cache entry ages until a later run of the page
RetryReturn ==
    /\ retry.pc = "done"
    /\ retry' = [pc |-> "idle",
                 cache |-> IF retry.cache.has
                           THEN [retry.cache EXCEPT !.old = TRUE]
                           ELSE retry.cache]
    /\ UNCHANGED <<call, scan, fetch, adx, pf>>

\* ttl=300: an entry of an earlier run expires, at any moment of this run
CacheExpire ==
    /\ retry.cache.has /\ retry.cache.old
    /\ retry' = [retry EXCEPT !.cache = [has |-> FALSE]]
    /\ UNCHANGED <<call, scan, fetch, adx, pf>>

NextRetry ==
    \/ RetryStart
    \/ RetryCall
    \/ RetrySleep
    \/ RetryReturn
    \/ CacheExpire

\* the function runs sequentially: a call returns, a sleep ends
SpecRetry ==
    Init /\ [][NextRetry]_vars /\ WF_vars(RetryCall) /\ WF_vars(RetrySleep)

-----------------------------------------------------------------------------
(* C14 *)

RetryRunning == retry.pc \in {"loop", "sleep", "done"}

\* the calls made so far all returned nothing
AllNone(calls) == \A j \in 1..Len(calls) : calls[j] = None

RetryBounded ==
    RetryRunning =>
        /\ Len(retry.calls) <= 3
        /\ AllNone(SubSeq(retry.calls, 1, Len(retry.calls) - 1))
        /\ retry.pc = "done" =>
            IF retry.out # None
            THEN retry.out = retry.calls[Len(retry.calls)]
            ELSE Len(retry.calls) = 3 /\ AllNone(retry.calls)

\* C14: get_position_details_with_retry terminates after at most 3 calls of
\* get_position_details: no call follows a non-empty result, which is what
\* it returns, and it returns None only after 3 calls that returned nothing.
C14_RetryAtMostThreeCalls ==
    /\ []RetryBounded
    /\ (retry.pc = "loop") ~> (retry.pc = "done")

\* a run whose first two calls returned nothing and whose third succeeded
C14_Witness ==
    /\ retry.pc = "done" /\ Len(retry.calls) = 3
    /\ retry.calls[1] = None /\ retry.calls[2] = None
    /\ retry.out # None /\ retry.out = retry.calls[3]

\* a run that gave up: three calls, all of them returned nothing
C14_WitnessGaveUp ==
    retry.pc = "done" /\ retry.out = None /\ Len(retry.calls) = 3
-----------------------------------------------------------------------------
(* utils.py: fetch_prices.  A dict is a record [keys, val]: the keys in     *)
(* insertion order and the value of each key.                               *)

\* the symbols of a caller's list: plain, with surrounding whitespace, empty
Symbols == {"AAPL", " AAPL", "MSFT", "MSFT ", ""}

\* str.strip() on the symbols of the model
strip(s) ==
    CASE s = " AAPL" -> "AAPL"
      [] s = "MSFT " -> "MSFT"
      [] OTHER -> s

RECURSIVE SelectStripped(_)
\* [s.strip() for s in symbols if s and isinstance(s, str)]
SelectStripped(symbols) ==
    IF symbols = <<>> THEN <<>>
    ELSE IF Head(symbols) # ""
         THEN <<strip(Head(symbols))>> \o SelectStripped(Tail(symbols))
         ELSE SelectStripped(Tail(symbols))

Range(l) == {l[j] : j \in 1..Len(l)}

RECURSIVE fromkeys(_)
\* list(dict.fromkeys(l)): the first occurrence of every entry, in order
fromkeys(l) ==
    IF l = <<>> THEN <<>>
    ELSE LET init == fromkeys(SubSeq(l, 1, Len(l) - 1)) IN
         IF l[Len(l)] \in Range(init) THEN init ELSE Append(init, l[Len(l)])

\* symbols_unique
symbols_unique(symbols) == fromkeys(SelectStripped(symbols))

\* d[k] = v
setitem(d, k, v) ==
    IF k \in Range(d.keys)
    THEN [d EXCEPT !.val = [j \in 1..Len(d.keys) |->
                               IF d.keys[j] = k THEN v ELSE d.val[j]]]
    ELSE [keys |-> Append(d.keys, k), val |-> Append(d.val, v)]

\* d.get(k): None for a key that is not in the dict
get(d, k) ==
    IF k \in Range(d.keys)
    THEN d.val[CHOOSE j \in 1..Len(d.keys) : d.keys[j] = k]
    ELSE None

RECURSIVE comprehension(_, _)
\* {s: results.get(s) for s in symbols}
comprehension(results, symbols) ==
    IF symbols = <<>> THEN [keys |-> <<>>, val |-> <<>>]
    ELSE setitem(comprehension(results, SubSeq(symbols, 1, Len(symbols) - 1)),
                 symbols[Len(symbols)], get(results, symbols[Len(symbols)]))

\* fetch_prices is called: one future per entry of symbols_unique is
\* submitted, then the as_completed loop is entered
FetchStart ==
    /\ fetch.pc = "idle"
    /\ \E symbols \in SeqsUpTo(Symbols, MaxScanLen) :
        fetch' = [pc |-> "as_completed",
                  symbols |-> symbols,
                  futures |-> [j \in 1..Len(symbols_unique(symbols)) |->
                                  [sym |-> symbols_unique(symbols)[j],
                                   state |-> "running", price |-> None,
                                   yielded |-> FALSE]],
                  results |-> [keys |-> <<>>, val |-> <<>>],
                  timeout |-> FALSE,
                  out |-> None]
    /\ UNCHANGED <<call, scan, retry, adx, pf>>

\* a worker thread: _fetch_yf_price(sym) returns
WorkerReturns ==
    /\ fetch.pc \in {"as_completed", "shutdown"}
    /\ \E j \in 1..Len(fetch.futures), price \in Prices \cup {None} :
        /\ fetch.futures[j].state = "running"
        /\ fetch' = [fetch EXCEPT !.futures[j].state = "finished",
                                  !.futures[j].price = price]
    /\ UNCHANGED <<call, scan, retry, adx, pf>>

\* one iteration of "for fut in as_completed(...)": a finished future is
\* yielded, fut.result() returns at once, results[sym] = price
FetchLoop ==
    /\ fetch.pc = "as_completed"
    /\ \E j \in 1..Len(fetch.futures) :
        /\ fetch.futures[j].state = "finished" /\ ~fetch.futures[j].yielded
        /\ fetch' = [fetch EXCEPT
                        !.futures[j].yielded = TRUE,
                        !.results = setitem(@, fetch.futures[j].sym,
                                            fetch.futures[j].price)]
    /\ UNCHANGED <<call, scan, retry, adx, pf>>

\* the budget max(10, timeout_per_call * len(futures)) is used up while a
\* future is unfinished: as_completed raises TimeoutError in the for
\* statement, outside the try; leaving the with block waits for the workers
FetchTimeout ==
    /\ fetch.pc = "as_completed"
    /\ \E j \in 1..Len(fetch.futures) : fetch.futures[j].state = "running"
    /\ fetch' = [fetch EXCEPT !.pc = "shutdown", !.timeout = TRUE]
    /\ UNCHANGED <<call, scan, retry, adx, pf>>

\* ThreadPoolExecutor.__exit__ returned: the TimeoutError leaves fetch_prices
FetchRaises ==
    /\ fetch.pc = "shutdown"
    /\ \A j \in 1..Len(fetch.futures) : fetch.futures[j].state = "finished"
    /\ fetch' = [fetch EXCEPT !.pc = "raised"]
    /\ UNCHANGED <<call, scan, retry, adx, pf>>

\* every future was yielded: return {s: results.get(s) for s in symbols}
FetchReturns ==
    /\ fetch.pc = "as_completed"
    /\ \A j \in 1..Len(fetch.futures) : fetch.futures[j].yielded
    /\ fetch' = [fetch EXCEPT !.pc = "returned",
                              !.out = comprehension(fetch.results, fetch.symbols)]
    /\ UNCHANGED <<call, scan, retry, adx, pf>>

FetchDone ==
    /\ fetch.pc \in {"returned", "raised"}
    /\ fetch' = NoFetch
    /\ UNCHANGED <<call, scan, retry, adx, pf>>

NextFetch ==
    \/ FetchStart
    \/ WorkerReturns
    \/ FetchLoop
    \/ FetchTimeout
    \/ FetchRaises
    \/ FetchReturns
    \/ FetchDone

SpecFetch == Init /\ [][NextFetch]_vars

-----------------------------------------------------------------------------
(* C15, C16, C17 *)

FetchReturned == fetch.pc = "returned"

\* C15: fetch_prices returns a dict whose keys are the input symbols in
\* input order, each mapped to the price that the fetch of the symbol
\* returned (None only if that fetch returned no price), also for symbols
\* with surrounding whitespace.
C15_EverySymbolMapsToItsPrice ==
    FetchReturned =>
        /\ fetch.out.keys = fromkeys(fetch.symbols)
        /\ \A j \in 1..Len(fetch.futures) :
            \A s \in Range(fetch.symbols) :
                (s # "" /\ strip(s) = fetch.futures[j].sym) =>
                    get(fetch.out, s) = fetch.futures[j].price

FetchEnded == fetch.pc \in {"returned", "raised"}

\* C16: when a worker does not complete within the timeout budget,
\* fetch_prices still returns normally, with None for the symbols that did
\* not complete and the fetched price for every symbol that did.
C16_TimeoutIsIsolated ==
    (FetchEnded /\ fetch.timeout) =>
        /\ fetch.pc = "returned"
        /\ \A j \in 1..Len(fetch.futures) :
            get(fetch.out, fetch.futures[j].sym) =
                IF fetch.futures[j].yielded THEN fetch.futures[j].price ELSE None

\* one future per distinct stripped symbol of the input
FetchOncePerSymbol ==
    fetch.pc # "idle" =>
        /\ \A a, b \in 1..Len(fetch.futures) :
            fetch.futures[a].sym = fetch.futures[b].sym => a = b
        /\ {fetch.futures[j].sym : j \in 1..Len(fetch.futures)}
             = {strip(s) : s \in {t \in Range(fetch.symbols) : t # ""}}

\* at most one displayed result per ticker of the watchlist
ScreenerOncePerTicker ==
    (scan.page = "AI_Screener" /\ scan.pc = "shown") =>
        \A a, b \in 1..Len(scan.shown) :
            scan.shown[a].ticker = scan.shown[b].ticker => a = b

\* C17: a symbol that appears more than once in the input of a scan gives
\* at most one entry of the output: fetch_prices submits one fetch per
\* distinct stripped symbol, and the AI screener's scan of a custom
\* watchlist shows at most one result per distinct ticker.
C17_DuplicatesScannedOnce == FetchOncePerSymbol /\ ScreenerOncePerTicker
-----------------------------------------------------------------------------
(* pages/Swing_Strategy.py: calls of calculate_adx *)

\* calculate_adx(df) is called with the default period
CallCalculateADX ==
    /\ adx.pc = "idle"
    /\ \E df \in ADXFrames :
        adx' = [pc |-> "returned", df |-> df, res |-> calculate_adx(df, period)]
    /\ UNCHANGED <<call, scan, retry, fetch, pf>>

\* analyze_market_data: hist['ADX'] = calculate_adx(hist), reached by the
\* frames that pass "if len(hist) < 50: return None"
AssignADX ==
    /\ adx.pc = "returned"
    /\ Len(adx.df.bars) >= 50
    /\ adx' = [pc |-> "assigned", df |-> adx.df, res |-> adx.res,
               ADX |-> setcolumn(adx.df, adx.res.adx)]
    /\ UNCHANGED <<call, scan, retry, fetch, pf>>

ADXDone ==
    /\ adx.pc \in {"returned", "assigned"}
    /\ adx' = NoADX
    /\ UNCHANGED <<call, scan, retry, fetch, pf>>

NextADX ==
    \/ CallCalculateADX
    \/ AssignADX
    \/ ADXDone

SpecADX == Init /\ [][NextADX]_vars

-----------------------------------------------------------------------------
(* C18, C19, C20 *)

ADXReturned == adx.pc \in {"returned", "assigned"} /\ ~adx.res.raised

\* +DI + -DI at position j of the series calculate_adx computed
DISum(j) == FAdd(adx.res.plus_di.values[j], adx.res.minus_di.values[j])

\* C18: calculate_adx returns the neutral value 0, not NaN, at every index
\* past warm-up where +DI + -DI equals 0 (here: equals 0 over the whole
\* window that ends at the index, as for a series without directional
\* movement).
C18_NeutralWithoutDirection ==
    ADXReturned =>
        \A j \in 1..Len(adx.res.adx.values) :
            (/\ j >= 2 * period - 1
             /\ j <= Len(adx.res.plus_di.values)
             /\ \A i \in (j - period + 1)..j : DISum(i) = F(0, 1))
            => adx.res.adx.values[j] = F(0, 1)

NonNegative(a) == isnum(a) /\ a.n >= 0

\* C19: at every index each of +DM and -DM is 0 or a strictly positive
\* move: neither series is ever negative and at most one of them is
\* non-zero.
C19_WilderZeroFloor ==
    ADXReturned =>
        \A j \in 1..Len(adx.df.bars) :
            /\ NonNegative(adx.res.plus_dm[j])
            /\ NonNegative(adx.res.minus_dm[j])
            /\ adx.res.plus_dm[j] = F(0, 1) \/ adx.res.minus_dm[j] = F(0, 1)

\* the last `period` bars of the frame have a defined, non-zero +DI + -DI
\* and a defined DX before them to fill the window
DirectionalAtEnd(df) ==
    LET ref == adx_try([df EXCEPT !.kind = "range"], period)
        n == Len(df.bars)
    IN  /\ n >= 2 * period
        /\ \A i \in (n - period + 1)..n : isnum(ref.dx.values[i])

\* C20: for a date-indexed frame with 2 * period bars of non-zero +DI + -DI
\* calculate_adx returns a series with the index of the frame, and the ADX
\* column assigned from it is defined at the latest bar.
C20_SameIndexAndDefinedADX ==
    (adx.pc = "assigned" /\ ~adx.res.raised /\ adx.df.kind = "date"
        /\ DirectionalAtEnd(adx.df)) =>
        /\ adx.res.adx.index = frame_index(adx.df)
        /\ isnum(adx.ADX.values[Len(adx.df.bars)])

-----------------------------------------------------------------------------
(* Properties of the RSI (SpecEval) *)

\* C21: wherever the 14-period RSI is defined it lies in [0, 100]; it is
\* exactly 100 where the average loss is 0 and the average gain is positive;
\* and it is undefined (NaN), not 100, where the average gain and the
\* average loss are both 0, as in a window of constant closes.
C21_RSIRange ==
    call.fn = "rsi" =>
        \A j \in 1..Len(call.hist.bars) :
            LET g == call.out.gain.values[j]
                l == call.out.loss.values[j]
                r == call.out.RSI.values[j]
            IN  /\ r.k \in {"nan", "num"}
                /\ isnum(r) => r.n >= 0 /\ r.n <= 100 * r.d
                /\ (isnum(g) /\ isnum(l) /\ l.n = 0 /\ g.n > 0) => r = F(100, 1)
                /\ (isnum(g) /\ isnum(l) /\ l.n = 0 /\ g.n = 0) => r = FNaN

\* a window without a falling close after a rise gets 100, with a -0.0
\* average loss too
C21_Witness ==
    /\ call.fn = "rsi"
    /\ \E j \in 1..Len(call.hist.bars) :
        /\ call.out.loss.values[j] = F(0, 1)
        /\ FGt(call.out.gain.values[j], F(0, 1))
        /\ call.out.rs.values[j] = FInf(0 - 1)
        /\ call.out.RSI.values[j] = F(100, 1)

\* a window of constant closes after a move: RSI is NaN there, and a number
\* one bar earlier, where the window still holds the move
C21_WitnessFlat ==
    /\ call.fn = "rsi"
    /\ LET n == Len(call.hist.bars) IN
        /\ n >= 15
        /\ \A j \in (n - 14)..n :
            call.hist.bars[j].Close = call.hist.bars[n].Close
        /\ call.out.RSI.values[n] = FNaN
        /\ call.out.gain.values[n] = F(0, 1)
        /\ call.out.loss.values[n] = F(0, 1)
        /\ isnum(call.out.RSI.values[n - 1])

-----------------------------------------------------------------------------
(* utils.py: compute_portfolio.  A frame is its column names and its rows;  *)
(* prices and quantities are the floats of NaN and Num.                     *)

\* compute_portfolio without the copy: the columns are added to the argument
compute_portfolio_in_place(holdings_df, prices) ==
    LET price(r) ==
            IF r.symbol \in Range(prices.keys)
            THEN IF get(prices, r.symbol) # None THEN get(prices, r.symbol)
                 ELSE IF \E j \in 1..Len(prices.val) : prices.val[j] # None
                      THEN NaN ELSE None
            ELSE NaN
        value(r) ==
            IF price(r) # None /\ notna(r.qty)
            THEN IF notna(price(r)) THEN Num(price(r).v * r.qty.v) ELSE NaN
            ELSE None
        df == [columns |-> holdings_df.columns \o <<"price", "value">>,
               rows |-> [j \in 1..Len(holdings_df.rows) |->
                           [symbol |-> holdings_df.rows[j].symbol,
                            qty |-> holdings_df.rows[j].qty,
                            price |-> price(holdings_df.rows[j]),
                            value |-> value(holdings_df.rows[j])]]]
        dropna == SelectSeq(df.rows, LAMBDA r : r.value # None /\ notna(r.value))
        sum[n \in 0..Len(dropna)] ==
            IF n = 0 THEN 0 ELSE sum[n - 1] + dropna[n].value.v
    IN  [holdings_df |-> df, df |-> df, total |-> Num(sum[Len(dropna)])]

\* df = holdings_df.copy()
\* df["price"] = df["symbol"].map(prices): the dict is read as a Series, in
\*   which None is NaN unless every value is None; a symbol that is not a key
\*   maps to NaN
\* df["value"] = df.apply(lambda r: (r["price"] * r["qty"])
\*   if (r["price"] is not None and not pd.isna(r["qty"])) else None, axis=1)
\* total = float(df["value"].dropna().sum())
\*   if not df["value"].dropna().empty else 0.0
\* return df, total; holdings_df is the argument as the call leaves it
compute_portfolio(holdings_df, prices) ==
    LET price(r) ==
            IF r.symbol \in Range(prices.keys)
            THEN IF get(prices, r.symbol) # None THEN get(prices, r.symbol)
                 ELSE IF \E j \in 1..Len(prices.val) : prices.val[j] # None
                      THEN NaN ELSE None
            ELSE NaN
        value(r) ==
            IF price(r) # None /\ notna(r.qty)
            THEN IF notna(price(r)) THEN Num(price(r).v * r.qty.v) ELSE NaN
            ELSE None
        df == [columns |-> holdings_df.columns \o <<"price", "value">>,
               rows |-> [j \in 1..Len(holdings_df.rows) |->
                           [symbol |-> holdings_df.rows[j].symbol,
                            qty |-> holdings_df.rows[j].qty,
                            price |-> price(holdings_df.rows[j]),
                            value |-> value(holdings_df.rows[j])]]]
        dropna == SelectSeq(df.rows, LAMBDA r : r.value # None /\ notna(r.value))
        sum[n \in 0..Len(dropna)] ==
            IF n = 0 THEN 0 ELSE sum[n - 1] + dropna[n].value.v
    IN  [holdings_df |-> holdings_df, df |-> df,
         total |-> Num(sum[Len(dropna)])]

\* holdings (columns: symbol, qty) of up to two rows; a quantity is a number
\* or NaN
HoldingsFrames ==
    {[columns |-> <<"symbol", "qty">>, rows |-> rows] :
        rows \in SeqsUpTo({[symbol |-> s, qty |-> q] :
                              s \in {"AAPL", "MSFT"},
                              q \in {Num(0), Num(2), NaN}}, 2)}

\* prices: Dict[str, Optional[float]], as fetch_prices returns it; a float
\* of the provider may be NaN
PriceDicts ==
    {[keys |-> ks, val |-> vs] :
        ks \in {<<>>, <<"AAPL">>, <<"MSFT">>, <<"AAPL", "MSFT">>},
        vs \in SeqsUpTo({None, NaN, Num(1), Num(MaxPrice)}, 2)}

CallComputePortfolio ==
    /\ call = NoCall
    /\ \E holdings_df \in HoldingsFrames, prices \in PriceDicts :
        /\ Len(prices.keys) = Len(prices.val)
        /\ call' = [fn |-> "compute_portfolio", holdings_df |-> holdings_df,
                    prices |-> prices,
                    out |-> compute_portfolio(holdings_df, prices)]
    /\ UNCHANGED <<scan, retry, fetch, adx, pf>>

\* the evaluations of SpecEval: one call of a page function at a time
NextEval ==
    \/ CallGetPositionDetails
    \/ CallAnalyzeStockForSignal
    \/ CallAnalysis
    \/ CallAnalyzeMarketData
    \/ CallRSI
    \/ CallComputePortfolio
    \/ Finish

SpecEval == Init /\ [][NextEval]_vars

-----------------------------------------------------------------------------
(* Properties of compute_portfolio (SpecEval) *)

IsPortfolioCall == call.fn = "compute_portfolio"

RECURSIVE FloatSum(_)
\* the float sum of a sequence of floats: NaN as soon as a term is NaN
FloatSum(terms) ==
    IF terms = <<>> THEN Num(0)
    ELSE LET rest == FloatSum(SubSeq(terms, 1, Len(terms) - 1))
             last == terms[Len(terms)]
         IN  IF notna(rest) /\ notna(last) THEN Num(rest.v + last.v) ELSE NaN

\* price * qty as floats
FloatProduct(price, qty) ==
    IF notna(price) /\ notna(qty) THEN Num(price.v * qty.v) ELSE NaN

\* the holdings whose symbol has a price other than None in the dict
NonNoneHoldings ==
    SelectSeq(call.holdings_df.rows,
              LAMBDA r : r.symbol \in Range(call.prices.keys)
                         /\ get(call.prices, r.symbol) # None)

\* the holdings whose symbol has a price that is a number and whose
\* quantity is a number
KnownHoldings ==
    SelectSeq(NonNoneHoldings,
              LAMBDA r : notna(get(call.prices, r.symbol)) /\ notna(r.qty))

Products(rows) ==
    [j \in 1..Len(rows) |->
        FloatProduct(get(call.prices, rows[j].symbol), rows[j].qty)]

\* C22 as stated: the total is the sum of price * qty over exactly the
\* holdings whose symbol has a non-None price, 0.0 when there is none, and
\* the holdings frame passed in is unchanged.
C22_TotalOverNonNone ==
    IsPortfolioCall =>
        /\ call.out.total = FloatSum(Products(NonNoneHoldings))
        /\ call.out.holdings_df = call.holdings_df

\* C22, amended: the total is the sum of price * qty over exactly the
\* holdings whose symbol has a price that is neither None nor NaN and whose
\* quantity is not NaN, 0.0 when there is none, and the holdings frame
\* passed in is unchanged.
C22_TotalOverKnown ==
    IsPortfolioCall =>
        /\ call.out.total = FloatSum(Products(KnownHoldings))
        /\ notna(call.out.total)
        /\ call.out.holdings_df = call.holdings_df

\* two holdings, one priced and one whose price is NaN: the total is the
\* value of the priced one
C22_Witness ==
    /\ IsPortfolioCall
    /\ Len(call.holdings_df.rows) = 2
    /\ Len(NonNoneHoldings) = 2
    /\ Len(KnownHoldings) = 1
    /\ call.out.total = Num(2 * MaxPrice)

\* no holding has a known price: 0.0, for an empty frame too
C22_WitnessNone ==
    /\ IsPortfolioCall
    /\ call.holdings_df.rows # <<>>
    /\ KnownHoldings = <<>>
    /\ call.out.total = Num(0)

-----------------------------------------------------------------------------
(* Properties of the retry loop and the ttl cache (SpecRetry) *)

\* C24: when the first attempt fails and the provider would answer at a
\* later attempt, get_position_details_with_retry returns the successful
\* result: every attempt after a failed one queries the provider again
\* and none reuses the failed outcome held by the ttl cache.
C24_RetryRequeries ==
    (retry.pc = "done" /\ retry.calls # <<>> /\ retry.calls[1] = None) =>
        /\ \A j \in 2..Len(retry.calls) : retry.queried[j]
        /\ (\E j \in 2..Len(retry.calls) : retry.ok[j]) => retry.out # None

-----------------------------------------------------------------------------
(* The portfolio store: pages/AI_Screener.py add_to_portfolio and the       *)
(* portfolio functions and buttons of pages/My_Portfolio.py.                *)
(* A row of the store has the cells Ticker and Status (text) and Quantity   *)
(* (a float; NaN stands for the empty cell); EntryPrice and Notes are       *)
(* written next to Quantity and EntryDate next to Status, and are left out. *)
(* A row of a DataFrame has object values for Ticker and Status: a string   *)
(* or NaN.  The field id names the position a row was created for; it is   *)
(* not a column.                                                            *)

\* an object value of a DataFrame: the string s, or NaN
Obj(s) == [nan |-> FALSE, v |-> s]

\* tickers of the watchlist and of STOCK_LIST; "NA" is the Nasdaq ticker of
\* Nano Labs
PortfolioTickers == {"AZN.ST", "NA"}

\* pd.read_csv(PORTFOLIO_FILE): FileNotFoundError gives the empty frame of
\* the except branch; a cell that is empty or one of the default NA strings
\* ("NA" among them) is read as NaN
read_csv(file) ==
    IF ~file.exists THEN <<>>
    ELSE [j \in 1..Len(file.rows) |->
            [id |-> file.rows[j].id,
             Ticker |-> IF file.rows[j].Ticker \in {"", "NA"}
                        THEN [nan |-> TRUE, v |-> ""]
                        ELSE Obj(file.rows[j].Ticker),
             Status |-> IF file.rows[j].Status \in {"", "NA"}
                        THEN [nan |-> TRUE, v |-> ""]
                        ELSE Obj(file.rows[j].Status),
             Quantity |-> file.rows[j].Quantity]]

\* df.to_csv(PORTFOLIO_FILE, index=False): NaN is written as the empty cell
to_csv(df) ==
    [exists |-> TRUE,
     rows |-> [j \in 1..Len(df) |->
                 [id |-> df[j].id,
                  Ticker |-> IF df[j].Ticker.nan THEN "" ELSE df[j].Ticker.v,
                  Status |-> IF df[j].Status.nan THEN "" ELSE df[j].Status.v,
                  Quantity |-> df[j].Quantity]]]

\* utils.read_portfolio(): the rows of the store as a DataFrame, an empty
\* frame when there are none; an empty cell has no value
read_portfolio(file) ==
    [j \in 1..Len(file.rows) |->
        [id |-> file.rows[j].id,
         Ticker |-> IF file.rows[j].Ticker = "" THEN [nan |-> TRUE, v |-> ""]
                    ELSE Obj(file.rows[j].Ticker),
         Status |-> IF file.rows[j].Status = "" THEN [nan |-> TRUE, v |-> ""]
                    ELSE Obj(file.rows[j].Status),
         Quantity |-> file.rows[j].Quantity]]

\* utils.save_portfolio(df): the store holds the rows of df
save_portfolio(df) ==
    [exists |-> TRUE,
     rows |-> [j \in 1..Len(df) |->
                 [id |-> df[j].id,
                  Ticker |-> IF df[j].Ticker.nan THEN "" ELSE df[j].Ticker.v,
                  Status |-> IF df[j].Status.nan THEN "" ELSE df[j].Status.v,
                  Quantity |-> df[j].Quantity]]]

\* add_to_portfolio, first half: read the file; "Check if already open"
\* returns with a toast, otherwise the call goes on with the frame it read
AddRead(s) ==
    /\ pf.sess[s].pc = "idle"
    /\ pf.nextid <= MaxRows
    /\ \E ticker \in PortfolioTickers :
        LET df == read_csv(pf.file) IN
        IF \E j \in 1..Len(df) :
               df[j].Ticker = Obj(ticker) /\ df[j].Status = Obj("Open")
        THEN pf' = [pf EXCEPT !.sess[s] =
                       [pc |-> "idle", last |-> "already open", ticker |-> ticker]]
        ELSE pf' = [pf EXCEPT !.sess[s] =
                       [pc |-> "adding", ticker |-> ticker, df |-> df]]
    /\ UNCHANGED <<call, scan, retry, fetch, adx>>

\* add_to_portfolio, second half: df = pd.concat([df, new_trade]) and
\* df.to_csv(PORTFOLIO_FILE, index=False), on the frame read in the first
AddWrite(s) ==
    /\ pf.sess[s].pc = "adding"
    /\ pf' = [pf EXCEPT
                !.file = to_csv(Append(pf.sess[s].df,
                                       [id |-> pf.nextid,
                                        Ticker |-> Obj(pf.sess[s].ticker),
                                        Status |-> Obj("Open"),
                                        Quantity |-> Num(1)])),
                !.nextid = @ + 1,
                !.sess[s] = [pc |-> "idle", last |-> "added",
                             ticker |-> pf.sess[s].ticker, id |-> pf.nextid]]
    /\ UNCHANGED <<call, scan, retry, fetch, adx>>

\* open_pos = portfolio_df[portfolio_df['Status'] == 'Open'] with the index
\* labels of portfolio_df: for each open row the label i of the forms and
\* buttons, and the position shown under it
open_pos(portfolio_df) ==
    LET labels == SelectSeq([j \in 1..Len(portfolio_df) |-> j - 1],
                            LAMBDA i : portfolio_df[i + 1].Status = Obj("Open"))
    IN  [k \in 1..Len(labels) |->
            [i |-> labels[k], id |-> portfolio_df[labels[k] + 1].id]]

\* a script run of pages/My_Portfolio.py: portfolio_df = read_portfolio()
\* and the loop that draws the open positions
Render(s) ==
    /\ pf.sess[s].pc = "idle"
    /\ pf' = [pf EXCEPT !.sess[s] =
                 [pc |-> "page", shown |-> open_pos(read_portfolio(pf.file))]]
    /\ UNCHANGED <<call, scan, retry, fetch, adx>>

\* add_manual_holding(ticker, quantity, gav, notes)
add_manual_holding(file, ticker, quantity, id) ==
    LET df == read_portfolio(file)
        new_trade == <<[id |-> id, Ticker |-> Obj(ticker),
                        Status |-> Obj("Open"), Quantity |-> quantity]>>
    IN  save_portfolio(IF df = <<>> THEN new_trade ELSE df \o new_trade)

\* update_holding(index, qty, gav, notes): df.loc[index, 'Quantity'] = qty
\* sets the cell of the row labelled index, and adds a row with that label,
\* NaN in its other columns, when the frame has none
update_holding(file, index, qty, id) ==
    LET df == read_portfolio(file)
    IN  save_portfolio(
            IF index < Len(df)
            THEN [df EXCEPT ![index + 1].Quantity = qty]
            ELSE Append(df, [id |-> id, Ticker |-> [nan |-> TRUE, v |-> ""],
                             Status |-> [nan |-> TRUE, v |-> ""],
                             Quantity |-> qty]))

\* update_status(index, status): df.loc[index, 'Status'] = status
update_status(file, index, status, id) ==
    LET df == read_portfolio(file)
    IN  save_portfolio(
            IF index < Len(df)
            THEN [df EXCEPT ![index + 1].Status = Obj(status)]
            ELSE Append(df, [id |-> id, Ticker |-> [nan |-> TRUE, v |-> ""],
                             Status |-> Obj(status), Quantity |-> NaN]))

\* remove_holding(index): df.drop(index).reset_index(drop=True); drop raises
\* KeyError for a label the frame does not have, and nothing is saved
remove_holding(file, index) ==
    LET df == read_portfolio(file)
    IN  IF index < Len(df)
        THEN save_portfolio([j \in 1..(Len(df) - 1) |->
                                IF j <= index THEN df[j] ELSE df[j + 1]])
        ELSE file

\* "Add to Portfolio" of the manual form, then st.rerun()
AddManualHolding(s) ==
    /\ pf.sess[s].pc = "page"
    /\ pf.nextid <= MaxRows
    /\ \E ticker \in PortfolioTickers :
        pf' = [pf EXCEPT
                 !.file = add_manual_holding(pf.file, ticker, Num(1), pf.nextid),
                 !.nextid = @ + 1,
                 !.sess[s] = [pc |-> "idle", last |-> "add_manual_holding",
                              id |-> pf.nextid]]
    /\ UNCHANGED <<call, scan, retry, fetch, adx>>

\* "Save Changes" of the form edit_{i}: update_holding(i, nq, np, nn), then
\* st.rerun()
UpdateHolding(s) ==
    /\ pf.sess[s].pc = "page"
    /\ \E k \in 1..Len(pf.sess[s].shown) :
        LET row == pf.sess[s].shown[k] IN
        /\ row.i < Len(pf.file.rows) \/ pf.nextid <= MaxRows
        /\ pf' = [pf EXCEPT
                    !.file = update_holding(pf.file, row.i, Num(2), pf.nextid),
                    !.nextid = IF row.i < Len(pf.file.rows) THEN @ ELSE @ + 1,
                    !.sess[s] = [pc |-> "idle", last |-> "update_holding",
                                 id |-> row.id]]
    /\ UNCHANGED <<call, scan, retry, fetch, adx>>

\* "Close Position", key cl_{i}:
\* update_status(i, f"Closed {datetime.now().date()}"), then st.rerun()
UpdateStatus(s) ==
    /\ pf.sess[s].pc = "page"
    /\ \E k \in 1..Len(pf.sess[s].shown) :
        LET row == pf.sess[s].shown[k] IN
        /\ row.i < Len(pf.file.rows) \/ pf.nextid <= MaxRows
        /\ pf' = [pf EXCEPT
                    !.file = update_status(pf.file, row.i, "Closed 2026-11-04",
                                           pf.nextid),
                    !.nextid = IF row.i < Len(pf.file.rows) THEN @ ELSE @ + 1,
                    !.sess[s] = [pc |-> "idle", last |-> "update_status",
                                 id |-> row.id]]
    /\ UNCHANGED <<call, scan, retry, fetch, adx>>

\* "Remove Permanently", key rm_{i}: remove_holding(i), then st.rerun()
RemoveHolding(s) ==
    /\ pf.sess[s].pc = "page"
    /\ \E k \in 1..Len(pf.sess[s].shown) :
        LET row == pf.sess[s].shown[k] IN
        pf' = [pf EXCEPT
                 !.file = remove_holding(pf.file, row.i),
                 !.sess[s] = [pc |-> "idle", last |-> "remove_holding",
                              id |-> row.id]]
    /\ UNCHANGED <<call, scan, retry, fetch, adx>>

NextPortfolio ==
    \E s \in Sessions :
        \/ AddRead(s)
        \/ AddWrite(s)
        \/ Render(s)
        \/ AddManualHolding(s)
        \/ UpdateHolding(s)
        \/ UpdateStatus(s)
        \/ RemoveHolding(s)

SpecPortfolio == Init /\ [][NextPortfolio]_vars

-----------------------------------------------------------------------------
(* Properties of the portfolio store (SpecPortfolio) *)

\* the Open rows of a ticker in the file
OpenRows(file, ticker) ==
    {j \in 1..Len(file.rows) :
        file.rows[j].Ticker = ticker /\ file.rows[j].Status = "Open"}

AtMostOneOpen(file) ==
    \A ticker \in PortfolioTickers : Cardinality(OpenRows(file, ticker)) <= 1

\* session s completes add_to_portfolio in this step, and the file is as
\* the call read it: no other call wrote in between
SequentialAdd(s) ==
    /\ pf.sess[s].pc = "adding"
    /\ pf'.sess[s].pc = "idle"
    /\ pf.sess[s].df = read_csv(pf.file)

\* C23: starting from a file with at most one Open row per ticker, a
\* sequential add_to_portfolio call keeps at most one Open row per ticker;
\* a call for a ticker that has an Open row leaves the file unchanged, and
\* a call for another ticker appends exactly one Open row and changes no
\* existing row.
C23_SequentialAdds ==
    [][\A s \in Sessions :
         (SequentialAdd(s) /\ AtMostOneOpen(pf.file)) =>
            /\ AtMostOneOpen(pf'.file)
            /\ IF OpenRows(pf.file, pf.sess[s].ticker) # {}
               THEN pf'.file = pf.file
               ELSE /\ Len(pf'.file.rows) = Len(pf.file.rows) + 1
                    /\ SubSeq(pf'.file.rows, 1, Len(pf.file.rows)) = pf.file.rows
                    /\ pf'.file.rows[Len(pf'.file.rows)].Status = "Open"
                    /\ pf'.file.rows[Len(pf'.file.rows)].Ticker = pf.sess[s].ticker
      ]_vars

\* session s runs a button or form of the page it was shown in this step
PageAction(s) ==
    /\ pf.sess[s].pc = "page"
    /\ pf'.sess[s].pc = "idle"
    /\ pf'.sess[s].last \in {"update_holding", "update_status", "remove_holding"}

\* C25: update_holding, update_status and remove_holding, triggered with the
\* row index i of a rendered page, modify only the row of the position that
\* was shown at index i, also when another session removed or added a row
\* after the page was rendered.
C25_ActionHitsShownRow ==
    [][\A s \in Sessions :
         PageAction(s) =>
            /\ \A r \in Range(pf.file.rows) :
                 r.id # pf'.sess[s].id => r \in Range(pf'.file.rows)
            /\ \A r \in Range(pf'.file.rows) :
                 r.id # pf'.sess[s].id => r \in Range(pf.file.rows)
      ]_vars

\* session s completes add_to_portfolio in this step, session o has
\* completed one for another ticker, and each read the file before the other
\* wrote it: the row of o is in the file but not in the frame s read
OverlappingAdds(s, o) ==
    /\ pf.sess[s].pc = "adding"
    /\ pf'.sess[s].pc = "idle"
    /\ pf.sess[o].pc = "idle"
    /\ pf.sess[o].last = "added"
    /\ pf.sess[o].ticker # pf.sess[s].ticker
    /\ \E r \in Range(pf.file.rows) : r.id = pf.sess[o].id
    /\ \A j \in 1..Len(pf.sess[s].df) : pf.sess[s].df[j].id # pf.sess[o].id

\* C26: when the add_to_portfolio calls of two sessions for two different
\* tickers overlap, both new Open rows are in the file after both calls
\* complete.
C26_NoAddLost ==
    [][\A s, o \in Sessions :
         OverlappingAdds(s, o) =>
            /\ \E r \in Range(pf'.file.rows) :
                 r.id = pf.sess[o].id /\ r.Status = "Open"
            /\ \E r \in Range(pf'.file.rows) :
                 r.id = pf'.sess[s].id /\ r.Status = "Open"
      ]_vars

\* C27: once the Status of a row is no longer 'Open', no operation sets
\* the Status of that row back to 'Open'.
C27_NeverReopened ==
    [][\A r \in Range(pf.file.rows) : \A q \in Range(pf'.file.rows) :
         (r.id = q.id /\ r.Status # "Open") => q.Status # "Open"
      ]_vars

====
